---------------------------- MODULE Spec2Model ----------------------------
(***************************************************************************)
(* Model of the two benchmark visualisation scripts:                       *)
(*   scripts/visualize_benchmark.py  - aggregate (per-protocol) variant    *)
(*   visualize_benchmark.py          - per-scenario variant                *)
(*                                                                         *)
(* Numbers are exact integers.  A time or a rate is an integer count of    *)
(* the smallest unit a label shows, so formatting with a fixed number of   *)
(* decimals is exact; a percentage or a ratio is an exact rational that    *)
(* is rounded to nearest, ties to even, as Python's format() does.         *)
(* File names are sequences of character codes, compared code by code.     *)
(***************************************************************************)
EXTENDS Integers, Sequences, FiniteSets, TLC

VARIABLES
    argv,       \* positional argument: "path" when given, "none" otherwise
    fs,         \* the file system the run sees
    pc,         \* position of the run in the script
    data,       \* the parsed record (json.load result), <<>> before loading
    err,        \* the exception that ended the run, "none" otherwise
    result_file,\* per-scenario: the path the script decided to read
    latest,     \* aggregate: the entry load_results picked in a directory
    outdir,     \* aggregate: output_dir.mkdir(exist_ok=True) has run
    artifacts,  \* chart name -> what the chart displays / the files saved
    console     \* per-scenario: what the summary reports

vars == <<argv, fs, pc, data, err, result_file, latest, outdir, artifacts,
          console>>

(***************************************************************************)
(* Bounds of the model.                                                    *)
(***************************************************************************)
MaxEntries == 3     \* entries in the results directory
MaxMs      == 2     \* largest value of a timing field under study
MaxRps     == 4     \* largest requests_per_second under study
MaxReq     == 2     \* largest request count under study
MaxSec     == 3     \* largest per-scenario time under study

(***************************************************************************)
(* Generic helpers.                                                        *)
(***************************************************************************)
Empty == << >>

Max(a, b) == IF a >= b THEN a ELSE b

\* dict.get(key, default)
Get(r, k, d) == IF k \in DOMAIN r THEN r[k] ELSE d

RECURSIVE SumSeq(_)
SumSeq(s) == IF s = << >> THEN 0 ELSE Head(s) + SumSeq(Tail(s))

\* Round the rational n/d (d > 0) to the nearest integer, ties to even:
\* what f"{x:.0f}" shows of an exactly represented x.
RoundHalfEven(n, d) ==
    LET q == n \div d
        r == n % d
    IN  IF 2 * r < d THEN q
        ELSE IF 2 * r > d THEN q + 1
        ELSE IF q % 2 = 0 THEN q ELSE q + 1

\* f"{x:.0f}" of x = n/d: the sign Python writes and the digits after it
\* ("-0" for a small negative x).
Fmt0(n, d) ==
    LET v == RoundHalfEven(n, d)
    IN  [neg |-> n < 0, digits |-> IF v < 0 THEN -v ELSE v]

(***************************************************************************)
(* File names.                                                             *)
(***************************************************************************)
PrefixChars == <<98, 101, 110, 99, 104, 109, 97, 114, 107, 95>>  \* benchmark_
SuffixChars == <<46, 106, 115, 111, 110>>                        \* .json

Name_0101 == PrefixChars \o <<50,48,50,52,45,48,49,45,48,49>> \o SuffixChars
Name_1202 == PrefixChars \o <<50,48,50,52,45,49,50,45,48,50>> \o SuffixChars
Name_Bare == PrefixChars \o SuffixChars                    \* benchmark_.json
Name_Zzz  == <<122, 122, 122>> \o SuffixChars               \* zzz.json
Name_Txt  == PrefixChars \o <<57, 46, 116, 120, 116>>       \* benchmark_9.txt
Name_NoUs == SubSeq(PrefixChars, 1, 9) \o SuffixChars       \* benchmark.json
Name_Bak  == Name_1202 \o <<46, 98, 97, 107>>   \* benchmark_2024-12-02.json.bak
Name_Nine == PrefixChars \o <<57>> \o SuffixChars           \* benchmark_9.json

NamePool == {Name_0101, Name_1202, Name_Bare, Name_Zzz, Name_Txt, Name_NoUs,
             Name_Bak, Name_Nine}

\* str.__lt__: code point by code point, a proper prefix is smaller.
RECURSIVE LexLess(_, _)
LexLess(a, b) ==
    IF b = << >> THEN FALSE
    ELSE IF a = << >> THEN TRUE
    ELSE IF Head(a) # Head(b) THEN Head(a) < Head(b)
    ELSE LexLess(Tail(a), Tail(b))

StartsWith(s, p) == Len(s) >= Len(p) /\ SubSeq(s, 1, Len(p)) = p
EndsWith(s, p) ==
    Len(s) >= Len(p) /\ SubSeq(s, Len(s) - Len(p) + 1, Len(s)) = p

\* fnmatch of one name against "benchmark_*.json"
GlobMatch(n) ==
    /\ Len(n) >= Len(PrefixChars) + Len(SuffixChars)
    /\ StartsWith(n, PrefixChars)
    /\ EndsWith(n, SuffixChars)

\* path.glob("benchmark_*.json") over the entries of a directory
Glob(entries) == {n \in DOMAIN entries : GlobMatch(n)}

\* sorted(names, reverse=True)
RECURSIVE SortedDesc(_)
SortedDesc(S) ==
    IF S = {} THEN << >>
    ELSE LET m == CHOOSE x \in S : \A y \in S : y = x \/ LexLess(y, x)
         IN  <<m>> \o SortedDesc(S \ {m})

(***************************************************************************)
(* Records of the aggregate variant.                                       *)
(***************************************************************************)
Protocols == <<"h1", "h2", "h3">>

PROTOCOL_NAMES == [h1 |-> "HTTP/1.1", h2 |-> "HTTP/2", h3 |-> "HTTP/3 (QUIC)"]

ProtoSet == {Protocols[i] : i \in 1..Len(Protocols)}

Absent == -1    \* marks a key that the record does not hold

\* A complete, consistent ProtocolMetrics record (times in tenths of a ms).
BaseMetrics ==
    [avg_dns_lookup_ms |-> 1, avg_tcp_connect_ms |-> 1,
     avg_tls_handshake_ms |-> 2, avg_ttfb_ms |-> 6,
     avg_content_transfer_ms |-> 3, avg_total_time_ms |-> 9,
     min_total_time_ms |-> 7, max_total_time_ms |-> 12,
     p50_total_time_ms |-> 8, p95_total_time_ms |-> 11,
     p99_total_time_ms |-> 12, requests_per_second |-> 2,
     total_requests |-> 2, successful_requests |-> 2]

TimingFields == {"avg_dns_lookup_ms", "avg_tcp_connect_ms",
                 "avg_tls_handshake_ms", "avg_ttfb_ms",
                 "avg_content_transfer_ms"}
TotalFields      == {"avg_total_time_ms"}
ThroughputFields == {"requests_per_second"}
RequestFields    == {"total_requests", "successful_requests"}

\* BaseMetrics with the fields F set as a says; a[f] = Absent removes f.
Override(F, a) ==
    [k \in (DOMAIN BaseMetrics) \ {f \in F : a[f] = Absent} |->
        IF k \in F THEN a[k] ELSE BaseMetrics[k]]

MetricsOver(F, hi) == {Override(F, a) : a \in [F -> (0..hi) \cup {Absent}]}

\* results in which one protocol varies over M and the others are complete
ResultsOne(M) ==
    UNION {UNION {{[p \in S |-> IF p = q THEN m ELSE BaseMetrics] : m \in M}
                  : q \in S} : S \in SUBSET ProtoSet}

\* results in which every present protocol varies over M
ResultsAll(M) == UNION {[S -> M] : S \in SUBSET ProtoSet}

BaseResults == [p \in ProtoSet |-> BaseMetrics]

\* m with its average total time set to TTFB + content transfer
Consistent(m) ==
    [m EXCEPT !["avg_total_time_ms"] =
        Get(m, "avg_ttfb_ms", 0) + Get(m, "avg_content_transfer_ms", 0)]

TimingRecords ==
    ResultsOne({Consistent(m) : m \in MetricsOver(TimingFields, MaxMs)})
TotalRecords      == ResultsOne(MetricsOver(TotalFields, 9 + MaxMs))
ThroughputRecords == ResultsAll(MetricsOver(ThroughputFields, MaxRps))
RequestRecords    == ResultsAll(MetricsOver(RequestFields, MaxReq))

AggregateRecords ==
    TimingRecords \cup TotalRecords \cup ThroughputRecords
        \cup RequestRecords \cup {[p \in {} |-> BaseMetrics]}

(***************************************************************************)
(* File contents and file systems.                                         *)
(***************************************************************************)
Malformed     == [wellformed |-> FALSE, data |-> Empty]
Wellformed(d) == [wellformed |-> TRUE, data |-> d]

\* new format: {"metadata": {...}, "results": {...}}; the url tells files apart
NewFormat(r, t) == [results |-> r, metadata |-> [url |-> t]]

NameSeq == <<Name_0101, Name_1202, Name_Bare, Name_Zzz, Name_Txt, Name_NoUs,
             Name_Bak, Name_Nine>>
Tag(n) == CHOOSE i \in 1..Len(NameSeq) : NameSeq[i] = n

FileFs(c) ==
    [kind |-> "file", content |-> c, entries |-> Empty, charts |-> FALSE]
DirFs(e, ch) ==
    [kind |-> "dir", content |-> Malformed, entries |-> e, charts |-> ch]
AbsentFs ==
    [kind |-> "absent", content |-> Malformed, entries |-> Empty,
     charts |-> FALSE]

\* directory listings: up to MaxEntries names, each a well-formed or a
\* malformed file
DirListings ==
    UNION {{[n \in S |-> IF w[n] THEN Wellformed(NewFormat(BaseResults, Tag(n)))
                         ELSE Malformed] : w \in [S -> BOOLEAN]}
           : S \in {T \in SUBSET NamePool : Cardinality(T) <= MaxEntries}}

LoaderFs ==
    {DirFs(e, ch) : e \in DirListings, ch \in BOOLEAN}
        \cup {AbsentFs, FileFs(Malformed)}

\* a result file holding r, in the new or in the old (bare results) format
RecordFs ==
    {FileFs(Wellformed(NewFormat(r, 0))) : r \in AggregateRecords}
        \cup {FileFs(Wellformed(r)) : r \in ThroughputRecords}

(***************************************************************************)
(* load_results                                                            *)
(***************************************************************************)
Failure(e)  == [err |-> e, data |-> Empty, latest |-> Empty]
Parsed(c, l) ==
    IF c.wellformed THEN [err |-> "none", data |-> c.data, latest |-> l]
    ELSE [err |-> "JSONDecodeError", data |-> Empty, latest |-> l]

\* json_files = sorted(path.glob("benchmark_*.json"), reverse=True)
JsonFiles(entries) == SortedDesc(Glob(entries))

\* the oldest entry instead of the latest (reverse=True dropped)
LatestOfAscending(entries) == JsonFiles(entries)[Len(JsonFiles(entries))]

\* latest = json_files[0]
LatestOf(entries) == JsonFiles(entries)[1]

\* load_results without its "if not json_files" check
load_results_Unchecked(f) ==
    IF f.kind = "file" THEN Parsed(f.content, Empty)
    ELSE IF f.kind = "dir" THEN
        IF JsonFiles(f.entries) = << >> THEN Failure("IndexError")
        ELSE Parsed(f.entries[LatestOf(f.entries)], LatestOf(f.entries))
    ELSE Failure("FileNotFoundError")

load_results(f) ==
    IF f.kind = "file" THEN Parsed(f.content, Empty)
    ELSE IF f.kind = "dir" THEN
        IF JsonFiles(f.entries) = << >> THEN Failure("FileNotFoundError")
        ELSE Parsed(f.entries[LatestOf(f.entries)], LatestOf(f.entries))
    ELSE Failure("FileNotFoundError")

(***************************************************************************)
(* The chart functions of the aggregate variant.  Each yields what the     *)
(* chart shows and the exception it raises ("none" when it completes).     *)
(***************************************************************************)
\* for proto in ["h1", "h2", "h3"]: if proto in results
Present(results) == SelectSeq(Protocols, LAMBDA p : p \in DOMAIN results)

\* protocols.append(PROTOCOL_NAMES[proto])
ProtocolLabels(results) ==
    [i \in 1..Len(Present(results)) |-> PROTOCOL_NAMES[Present(results)[i]]]

\* [r.get(key, 0) for each present protocol]
Column(results, key) ==
    [i \in 1..Len(Present(results)) |-> Get(results[Present(results)[i]], key, 0)]

\* TTFB minus connection overhead
TtfbOverhead(r) ==
    Get(r, "avg_ttfb_ms", 0) - Get(r, "avg_dns_lookup_ms", 0)
        - Get(r, "avg_tcp_connect_ms", 0) - Get(r, "avg_tls_handshake_ms", 0)

\* the overhead without the clamp
ProcessingTimeUnclamped(r) == TtfbOverhead(r)

\* ttfb_times.append(max(0, ttfb_overhead))
ProcessingTime(r) == Max(0, TtfbOverhead(r))

\* totals that leave the transfer segment out of the zip
StackTotalsShort(dns, tcp, tls, ttfb, transfer) ==
    [i \in 1..Len(dns) |-> SumSeq(<<dns[i], tcp[i], tls[i], ttfb[i]>>)]

\* totals = [sum(vals) for vals in zip(dns, tcp, tls, ttfb, transfer)]
StackTotals(dns, tcp, tls, ttfb, transfer) ==
    [i \in 1..Len(dns) |-> SumSeq(<<dns[i], tcp[i], tls[i], ttfb[i], transfer[i]>>)]

create_timing_breakdown_chart(results) ==
    LET ps         == Present(results)
        dns_times  == Column(results, "avg_dns_lookup_ms")
        tcp_times  == Column(results, "avg_tcp_connect_ms")
        tls_times  == Column(results, "avg_tls_handshake_ms")
        ttfb_times == [i \in 1..Len(ps) |-> ProcessingTime(results[ps[i]])]
        transfer_times == Column(results, "avg_content_transfer_ms")
    IN  [err |-> "none",
         file |-> "timing_breakdown.png",
         shows |-> [protocols |-> ProtocolLabels(results),
                    dns |-> dns_times, tcp |-> tcp_times, tls |-> tls_times,
                    processing |-> ttfb_times, transfer |-> transfer_times,
                    totals |-> StackTotals(dns_times, tcp_times, tls_times,
                                           ttfb_times, transfer_times)]]

create_latency_comparison_chart(results) ==
    [err |-> "none",
     file |-> "latency_comparison.png",
     shows |-> [protocols |-> ProtocolLabels(results),
                p50 |-> Column(results, "p50_total_time_ms"),
                p95 |-> Column(results, "p95_total_time_ms"),
                p99 |-> Column(results, "p99_total_time_ms"),
                avg |-> Column(results, "avg_total_time_ms")]]

\* f"+{improvement:.0f}%" with improvement = ((tp - baseline) / baseline) * 100
ImprovementLabel(tp, baseline) ==
    [lead |-> "+", pct |-> Fmt0((tp - baseline) * 100, baseline)]

\* baseline = throughputs[0]
ThroughputBaseline(throughputs) == throughputs[1]

create_throughput_chart(results) ==
    LET throughputs == Column(results, "requests_per_second")
        n           == Len(throughputs)
        shown(ann)  == [protocols |-> ProtocolLabels(results),
                        throughputs |-> throughputs, improvements |-> ann]
    IN  IF n >= 2 THEN
            IF ThroughputBaseline(throughputs) = 0
            THEN [err |-> "ZeroDivisionError", file |-> "", shows |-> Empty]
            ELSE [err |-> "none",
                  file |-> "throughput_comparison.png",
                  shows |-> shown([i \in 1..(n - 1) |->
                      ImprovementLabel(throughputs[i + 1],
                                       ThroughputBaseline(throughputs))])]
        ELSE [err |-> "none", file |-> "throughput_comparison.png",
              shows |-> shown(<< >>)]

create_min_max_chart(results) ==
    LET avgs == Column(results, "avg_total_time_ms")
        mins == [i \in 1..Len(avgs) |->
                    avgs[i] - Column(results, "min_total_time_ms")[i]]
        maxs == [i \in 1..Len(avgs) |->
                    Column(results, "max_total_time_ms")[i] - avgs[i]]
    IN  [err |-> "none",
         file |-> "response_time_range.png",
         shows |-> [protocols |-> ProtocolLabels(results),
                    avgs |-> avgs, mins |-> mins, maxs |-> maxs,
                    min_labels |-> [i \in 1..Len(avgs) |-> avgs[i] - mins[i]],
                    max_labels |-> [i \in 1..Len(avgs) |-> avgs[i] + maxs[i]]]]

\* total = results[proto].get("total_requests", 1)
TotalRequests(r) == Get(r, "total_requests", 1)

\* one cell of the "Success Rate" row: "N/A", or f"{(success/total)*100:.0f}%"
SuccessCell(results, proto) ==
    IF proto \in DOMAIN results THEN
        IF TotalRequests(results[proto]) = 0 THEN [raises |-> TRUE]
        ELSE [raises |-> FALSE, na |-> FALSE,
              pct |-> Fmt0(Get(results[proto], "successful_requests", 0) * 100,
                           TotalRequests(results[proto]))]
    ELSE [raises |-> FALSE, na |-> TRUE]

SummaryKeys == <<"avg_total_time_ms", "avg_ttfb_ms", "avg_tls_handshake_ms",
                 "p99_total_time_ms", "requests_per_second">>

\* one cell of a metric row: "N/A" for an absent protocol
SummaryCell(results, proto, key) ==
    IF proto \in DOMAIN results
    THEN [na |-> FALSE, val |-> Get(results[proto], key, 0)]
    ELSE [na |-> TRUE]

create_summary_dashboard(results, metadata) ==
    LET cells == [i \in 1..Len(Protocols) |-> SuccessCell(results, Protocols[i])]
    IN  IF \E i \in 1..Len(Protocols) : cells[i].raises
        THEN [err |-> "ZeroDivisionError", file |-> "", shows |-> Empty]
        ELSE [err |-> "none",
              file |-> "dashboard.png",
              shows |-> [url |-> Get(metadata, "url", Absent),
                         protocols |-> ProtocolLabels(results),
                         totals |-> Column(results, "avg_total_time_ms"),
                         throughputs |-> Column(results, "requests_per_second"),
                         p50s |-> Column(results, "p50_total_time_ms"),
                         p95s |-> Column(results, "p95_total_time_ms"),
                         p99s |-> Column(results, "p99_total_time_ms"),
                         summary |-> [k \in 1..Len(SummaryKeys) |->
                             [i \in 1..Len(Protocols) |->
                                 SummaryCell(results, Protocols[i], SummaryKeys[k])]],
                         success |-> cells]]

(***************************************************************************)
(* main() of the aggregate variant.                                        *)
(***************************************************************************)
\* results = data.get("results", data)
ResultsOf(d) == Get(d, "results", d)
\* metadata = data.get("metadata", {})
MetadataOf(d) == Get(d, "metadata", Empty)

Crash(e) == pc' = "crashed" /\ err' = e

\* run one chart function at position here, continue at position next
Emit(here, chart, next) ==
    /\ pc = here
    /\ IF chart.err = "none"
       THEN /\ artifacts' = artifacts @@ (chart.file :> chart.shows)
            /\ pc' = next
            /\ err' = err
       ELSE /\ Crash(chart.err)
            /\ artifacts' = artifacts
    /\ UNCHANGED <<argv, fs, data, result_file, latest, outdir, console>>

\* len(sys.argv) < 2: usage text, sys.exit(1)
MainUsage ==
    /\ pc = "start" /\ argv = "none"
    /\ pc' = "exit1"
    /\ UNCHANGED <<argv, fs, data, err, result_file, latest, outdir, artifacts,
                   console>>

\* data = load_results(input_path)
MainLoad ==
    /\ pc = "start" /\ argv = "path"
    /\ LET res == load_results(fs)
       IN  /\ latest' = res.latest
           /\ data' = res.data
           /\ IF res.err = "none" THEN pc' = "loaded" /\ err' = err
              ELSE Crash(res.err)
    /\ UNCHANGED <<argv, fs, result_file, outdir, artifacts, console>>

\* output_dir.mkdir() without exist_ok: an existing directory is an error
MainMkdirStrict ==
    /\ pc = "loaded"
    /\ IF fs.charts
       THEN Crash("FileExistsError") /\ UNCHANGED <<fs, outdir>>
       ELSE /\ outdir' = TRUE
            /\ fs' = [fs EXCEPT !.charts = TRUE]
            /\ pc' = "timing"
            /\ err' = err
    /\ UNCHANGED <<argv, data, result_file, latest, artifacts, console>>

\* output_dir.mkdir(exist_ok=True)
MainMkdir ==
    /\ pc = "loaded"
    /\ outdir' = TRUE
    /\ fs' = [fs EXCEPT !.charts = TRUE]
    /\ pc' = "timing"
    /\ UNCHANGED <<argv, data, err, result_file, latest, artifacts, console>>

MainTiming ==
    Emit("timing", create_timing_breakdown_chart(ResultsOf(data)), "latency")
MainLatency ==
    Emit("latency", create_latency_comparison_chart(ResultsOf(data)), "throughput")
MainThroughput ==
    Emit("throughput", create_throughput_chart(ResultsOf(data)), "minmax")
MainMinMax ==
    Emit("minmax", create_min_max_chart(ResultsOf(data)), "dashboard")
MainDashboard ==
    Emit("dashboard",
         create_summary_dashboard(ResultsOf(data), MetadataOf(data)), "done")

Init ==
    /\ \/ argv = "path" /\ fs \in LoaderFs \cup RecordFs
       \/ argv = "none" /\ fs = AbsentFs
    /\ pc = "start"
    /\ data = Empty
    /\ err = "none"
    /\ result_file = ""
    /\ latest = Empty
    /\ outdir = FALSE
    /\ artifacts = Empty
    /\ console = Empty

Next ==
    \/ MainUsage
    \/ MainLoad
    \/ MainMkdir
    \/ MainTiming
    \/ MainLatency
    \/ MainThroughput
    \/ MainMinMax
    \/ MainDashboard

Spec == Init /\ [][Next]_vars

(***************************************************************************)
(* Records of the per-scenario variant (times in seconds).                 *)
(***************************************************************************)
protocols == <<"http1_1", "http2", "http3">>

labels == [http1_1 |-> "HTTP/1.1", http2 |-> "HTTP/2", http3 |-> "HTTP/3"]

SProtoSet == {protocols[i] : i \in 1..Len(protocols)}

Scenarios == {"single_request", "large_file", "concurrent", "full_page"}

Gone == -2      \* marks a protocol that the scenario does not hold

\* the field a scenario's total time is read from
TimeField(s) ==
    IF s \in {"single_request", "large_file"} THEN "avg_total" ELSE "total_time"

\* complete metrics of one protocol in scenario s
ScenarioBase(s) ==
    IF s \in {"single_request", "large_file"}
    THEN [avg_total |-> 2, avg_ttfb |-> 1]
    ELSE [total_time |-> 2]

BaseScenarioResults == [s \in Scenarios |-> [p \in SProtoSet |-> ScenarioBase(s)]]

\* metrics of scenario s with its time field set to v, or removed
WithTime(s, v) ==
    [k \in (DOMAIN ScenarioBase(s)) \ (IF v = Absent THEN {TimeField(s)} ELSE {}) |->
        IF k = TimeField(s) THEN v ELSE ScenarioBase(s)[k]]

\* results whose scenario s holds the protocols and times a says
ScenarioVaried(s, a) ==
    [BaseScenarioResults EXCEPT
        ![s] = [p \in {q \in SProtoSet : a[q] # Gone} |-> WithTime(s, a[p])]]

TimeRecords ==
    {ScenarioVaried(s, a) :
        s \in Scenarios, a \in [SProtoSet -> (0..MaxSec) \cup {Absent, Gone}]}

\* results that lack a whole scenario, or a TTFB field
SparseRecords ==
    {[s \in Scenarios \ {x} |-> BaseScenarioResults[s]] : x \in Scenarios}
        \cup {[BaseScenarioResults EXCEPT ![s][p] = [avg_total |-> 2]] :
                s \in {"single_request", "large_file"}, p \in SProtoSet}

TopKeys == {"target", "benchmark_date", "iterations", "results"}

\* shape B: {"target", "benchmark_date", "iterations", "results"}
ShapeB(r) == [k \in TopKeys |-> IF k = "results" THEN r ELSE 1]

ScenarioFiles ==
    {Wellformed(ShapeB(r)) : r \in TimeRecords \cup SparseRecords}
        \cup {Wellformed([k \in K |-> ShapeB(BaseScenarioResults)[k]]) :
                K \in SUBSET TopKeys}
        \cup {Malformed}

Missing == [exists |-> FALSE, content |-> Malformed]
Holding(c) == [exists |-> TRUE, content |-> c]

\* the three paths the script may read
ScenarioFs ==
    {[given |-> Holding(c), latest_json |-> Missing, fallback |-> Missing] :
        c \in ScenarioFiles}
    \cup {[given |-> g, latest_json |-> l, fallback |-> f] :
            g \in {Missing},
            l \in {Missing, Holding(Malformed),
                   Holding(Wellformed(ShapeB(BaseScenarioResults)))},
            f \in {Missing, Holding(Malformed),
                   Holding(Wellformed(ShapeB(BaseScenarioResults)))}}

(***************************************************************************)
(* The per-scenario script, top to bottom.                                 *)
(***************************************************************************)
\* f"{x:.2f}" of x = n/d, in hundredths
Fmt2(n, d) == RoundHalfEven(n * 100, d)

\* results[scenario][p][field] can be read for every p in protocols
Readable(results, s, field) ==
    /\ s \in DOMAIN results
    /\ \A i \in 1..Len(protocols) :
        /\ protocols[i] \in DOMAIN results[s]
        /\ field \in DOMAIN results[s][protocols[i]]

\* [results[scenario][p][field] * 1000 for p in protocols]
TimesMs(results, s, field) ==
    [i \in 1..Len(protocols) |-> results[s][protocols[i]][field] * 1000]

\* baseline = concurrent_times[0]  # HTTP/1.1
PanelBaseline(times) == times[1]

\* the "% faster" annotation of one bar, "" when none is written
FasterLabel(p, val, baseline) ==
    IF p # "http1_1" /\ (baseline - val) * 100 > 5 * baseline
    THEN [shown |-> TRUE, pct |-> Fmt0((baseline - val) * 100, baseline)]
    ELSE [shown |-> FALSE]

\* panels 1 and 2: total time and TTFB bars
LatencyPanel(results, s) ==
    IF Readable(results, s, "avg_total") /\ Readable(results, s, "avg_ttfb")
    THEN [err |-> "none",
          shows |-> [total |-> TimesMs(results, s, "avg_total"),
                     ttfb |-> TimesMs(results, s, "avg_ttfb")]]
    ELSE [err |-> "KeyError", shows |-> Empty]

\* panels 3 and 4: total time bars with improvement over the baseline
ImprovementPanel(results, s) ==
    IF ~Readable(results, s, "total_time")
    THEN [err |-> "KeyError", shows |-> Empty]
    ELSE LET times == TimesMs(results, s, "total_time")
         IN  IF PanelBaseline(times) = 0
             THEN [err |-> "ZeroDivisionError", shows |-> Empty]
             ELSE [err |-> "none",
                   shows |-> [total |-> times,
                              faster |-> [i \in 1..Len(protocols) |->
                                  FasterLabel(protocols[i], times[i],
                                              PanelBaseline(times))]]]

\* speedup = results[s]["http1_1"]["total_time"] / results[s][p]["total_time"]
Speedups(results, s) ==
    IF \E i \in 1..Len(protocols) : results[s][protocols[i]]["total_time"] = 0
    THEN [err |-> "ZeroDivisionError", shows |-> Empty]
    ELSE [err |-> "none",
          shows |-> [i \in 1..Len(protocols) |->
              Fmt2(results[s]["http1_1"]["total_time"],
                   results[s][protocols[i]]["total_time"])]]

\* a minimum search that keeps the last of several equal times
RECURSIVE MinKeyLast(_, _, _)
MinKeyLast(times, best, i) ==
    IF i > Len(protocols) THEN best
    ELSE MinKeyLast(times,
                    IF times[protocols[i]] <= times[best] THEN protocols[i] ELSE best,
                    i + 1)

\* min(times, key=times.get) over a dict filled in the order of protocols
RECURSIVE MinKey(_, _, _)
MinKey(times, best, i) ==
    IF i > Len(protocols) THEN best
    ELSE MinKey(times,
                IF times[protocols[i]] < times[best] THEN protocols[i] ELSE best,
                i + 1)

Winner(results, s) ==
    MinKey([p \in SProtoSet |-> results[s][p][TimeField(s)]], protocols[1], 2)

ScriptStep(here, outcome, next) ==
    /\ pc = here
    /\ IF outcome.err = "none"
       THEN pc' = next /\ err' = err
       ELSE Crash(outcome.err)

\* a selection that never falls back to benchmark_results.json
SelectedFileNoFallback(a, f) == IF a = "path" THEN "given" ELSE "latest_json"

\* result_file = sys.argv[1], else results/latest.json, else benchmark_results.json
SelectedFile(a, f) ==
    IF a = "path" THEN "given"
    ELSE IF f.latest_json.exists THEN "latest_json" ELSE "fallback"

ScriptSelect ==
    /\ pc = "select"
    /\ result_file' = SelectedFile(argv, fs)
    /\ pc' = "open"
    /\ UNCHANGED <<argv, fs, data, err, latest, outdir, artifacts, console>>

\* open(result_file), json.load(f), results = data["results"]
OpenOutcome(file) ==
    IF ~file.exists THEN [err |-> "FileNotFoundError", data |-> Empty]
    ELSE IF ~file.content.wellformed THEN [err |-> "JSONDecodeError", data |-> Empty]
    ELSE IF "results" \notin DOMAIN file.content.data
         THEN [err |-> "KeyError", data |-> file.content.data]
    ELSE [err |-> "none", data |-> file.content.data]

ScriptLoad ==
    /\ ScriptStep("open", OpenOutcome(fs[result_file]), "single")
    /\ data' = OpenOutcome(fs[result_file]).data
    /\ UNCHANGED <<argv, fs, result_file, latest, outdir, artifacts, console>>

Panel(here, key, panel, next) ==
    /\ ScriptStep(here, panel, next)
    /\ artifacts' = IF panel.err = "none"
                    THEN artifacts @@ (key :> panel.shows) ELSE artifacts
    /\ UNCHANGED <<argv, fs, data, result_file, latest, outdir, console>>

ScriptSingle ==
    Panel("single", "single_request",
          LatencyPanel(data["results"], "single_request"), "large")
ScriptLarge ==
    Panel("large", "large_file",
          LatencyPanel(data["results"], "large_file"), "concurrent")
ScriptConcurrent ==
    Panel("concurrent", "concurrent",
          ImprovementPanel(data["results"], "concurrent"), "full_page")
ScriptFullPage ==
    Panel("full_page", "full_page",
          ImprovementPanel(data["results"], "full_page"), "save")

\* plt.savefig(png_file), plt.savefig(svg_file)
ScriptSave ==
    /\ pc = "save"
    /\ artifacts' = artifacts @@ ("png" :> result_file) @@ ("svg" :> result_file)
    /\ pc' = "summary"
    /\ UNCHANGED <<argv, fs, data, err, result_file, latest, outdir, console>>

\* the summary table: header, then the four scenario listings
SummaryOutcome(d) ==
    IF ~({"target", "benchmark_date", "iterations"} \subseteq DOMAIN d)
    THEN [err |-> "KeyError", shows |-> Empty]
    ELSE IF Speedups(d["results"], "concurrent").err # "none"
         THEN Speedups(d["results"], "concurrent")
    ELSE IF Speedups(d["results"], "full_page").err # "none"
         THEN Speedups(d["results"], "full_page")
    ELSE [err |-> "none",
          shows |-> [concurrent |-> Speedups(d["results"], "concurrent").shows,
                     full_page |-> Speedups(d["results"], "full_page").shows]]

ScriptSummary ==
    /\ ScriptStep("summary", SummaryOutcome(data), "winners")
    /\ console' = IF SummaryOutcome(data).err = "none"
                  THEN console @@ ("speedup" :> SummaryOutcome(data).shows)
                  ELSE console
    /\ UNCHANGED <<argv, fs, data, result_file, latest, outdir, artifacts>>

ScriptWinners ==
    /\ pc = "winners"
    /\ console' = console @@
           ("winners" :> [s \in Scenarios |-> Winner(data["results"], s)])
    /\ pc' = "shown"
    /\ UNCHANGED <<argv, fs, data, err, result_file, latest, outdir, artifacts>>

ScenarioInit ==
    /\ \/ argv = "path" /\ fs \in {f \in ScenarioFs : f.given.exists}
       \/ argv = "none" /\ fs \in {f \in ScenarioFs : ~f.given.exists}
    /\ pc = "select"
    /\ data = Empty
    /\ err = "none"
    /\ result_file = ""
    /\ latest = Empty
    /\ outdir = FALSE
    /\ artifacts = Empty
    /\ console = Empty

ScenarioNext ==
    \/ ScriptSelect
    \/ ScriptLoad
    \/ ScriptSingle
    \/ ScriptLarge
    \/ ScriptConcurrent
    \/ ScriptFullPage
    \/ ScriptSave
    \/ ScriptSummary
    \/ ScriptWinners

ScenarioSpec == ScenarioInit /\ [][ScenarioNext]_vars

(***************************************************************************)
(* Properties of the result loader.                                        *)
(***************************************************************************)
LoadHasRun == argv = "path" /\ pc \notin {"start", "exit1"}

\* the entries of the directory that match benchmark_*.json
Matching == {n \in DOMAIN fs.entries : GlobMatch(n)}

\* C1: given a directory, load_results parses exactly the entry whose name
\* is the lexicographically greatest among those matching benchmark_*.json;
\* entries that do not match never influence the choice.
C1_LatestIsGreatestMatch ==
    (LoadHasRun /\ fs.kind = "dir" /\ Matching # {}) =>
        /\ latest \in Matching
        /\ \A n \in Matching : n = latest \/ LexLess(n, latest)
        /\ ({Name_0101, Name_1202} \subseteq Matching /\ Name_Nine \notin Matching
                => latest = Name_1202)
        /\ IF fs.entries[latest].wellformed
           THEN data = fs.entries[latest].data
           ELSE err = "JSONDecodeError" /\ data = Empty

\* C1 witness: both dated files and a greater non-matching name are in the
\* directory, and the later dated file is the one that was parsed.
C1_Witness ==
    /\ pc = "loaded" /\ fs.kind = "dir"
    /\ {Name_0101, Name_1202, Name_Zzz} \subseteq DOMAIN fs.entries
    /\ latest = Name_1202
    /\ data = fs.entries[Name_1202].data

NotFoundCase ==
    \/ fs.kind = "absent"
    \/ fs.kind = "dir" /\ Matching = {}

\* the file load_results reads when it is not a not-found case
SourceFile == IF fs.kind = "file" THEN fs.content ELSE fs.entries[latest]

\* C2: load_results fails with a not-found error, returning no record, in
\* exactly two cases: a directory without an entry matching benchmark_*.json,
\* or a path that is neither a file nor a directory; in every other case it
\* returns the parsed record or a parse error.
C2_NotFoundExactly ==
    LoadHasRun =>
        /\ (err = "FileNotFoundError") <=> NotFoundCase
        /\ err = "FileNotFoundError" => (data = Empty /\ pc = "crashed")
        /\ ~NotFoundCase =>
            IF SourceFile.wellformed
            THEN data = SourceFile.data /\ err # "JSONDecodeError"
            ELSE err = "JSONDecodeError" /\ data = Empty /\ pc = "crashed"

\* C2 witness: a directory that holds entries, none of them matching, made
\* the load fail with a not-found error.
C2_Witness ==
    /\ pc = "crashed" /\ err = "FileNotFoundError"
    /\ fs.kind = "dir" /\ DOMAIN fs.entries # {}
    /\ data = Empty

(***************************************************************************)
(* Properties of the aggregate charts.                                     *)
(***************************************************************************)
\* the record the charts are drawn from
TheResults == IF "results" \in DOMAIN data THEN data["results"] ELSE data

\* the protocols of the record, in canonical order
PresentOrder == SelectSeq(<<"h1", "h2", "h3">>, LAMBDA p : p \in DOMAIN TheResults)

\* the raw value of a field of a present protocol, zero when it is missing
Raw(p, k) == IF k \in DOMAIN TheResults[p] THEN TheResults[p][k] ELSE 0

Drawn(file) == file \in DOMAIN artifacts

RecordLoaded == LoadHasRun /\ err \notin {"FileNotFoundError", "JSONDecodeError"}

\* TTFB - DNS - TCP - TLS of the raw record
RawOverhead(p) ==
    Raw(p, "avg_ttfb_ms") - Raw(p, "avg_dns_lookup_ms")
        - Raw(p, "avg_tcp_connect_ms") - Raw(p, "avg_tls_handshake_ms")

\* C3: for every record and every protocol present, the "Server Processing"
\* value on the timing-breakdown chart equals max(0, TTFB - DNS - TCP - TLS)
\* and is never negative, also when DNS + TCP + TLS exceed the TTFB.
C3_ProcessingClamped ==
    Drawn("timing_breakdown.png") =>
        LET shown == artifacts["timing_breakdown.png"].processing
        IN  /\ Len(shown) = Len(PresentOrder)
            /\ \A i \in 1..Len(PresentOrder) :
                /\ shown[i] >= 0
                /\ shown[i] = IF RawOverhead(PresentOrder[i]) > 0
                              THEN RawOverhead(PresentOrder[i]) ELSE 0

\* C3 witness: the chart was drawn for a protocol whose DNS, TCP and TLS
\* times sum to more than its TTFB, and shows zero for it.
C3_Witness ==
    /\ Drawn("timing_breakdown.png")
    /\ \E i \in 1..Len(PresentOrder) :
        /\ RawOverhead(PresentOrder[i]) < 0
        /\ artifacts["timing_breakdown.png"].processing[i] = 0

\* the sum of the components the timing-breakdown chart displays for bar i
StackSum(i) ==
    LET c == artifacts["timing_breakdown.png"]
    IN  c.dns[i] + c.tcp[i] + c.tls[i] + c.processing[i] + c.transfer[i]

\* a protocol whose six time fields are all there and whose average total
\* time is its TTFB plus its content transfer time
ValidTimes(p) ==
    /\ TimingFields \cup TotalFields \subseteq DOMAIN TheResults[p]
    /\ TheResults[p]["avg_total_time_ms"]
           = TheResults[p]["avg_ttfb_ms"] + TheResults[p]["avg_content_transfer_ms"]

\* C4 (as stated): for valid records, in every chart that displays a total
\* time for a protocol - the timing-breakdown chart and the dashboard's
\* average-response-time panel - the displayed total equals the sum of the
\* protocol's displayed components DNS + TCP + TLS + processing + transfer.
C4_EveryTotalIsComponentSum ==
    /\ Drawn("timing_breakdown.png") =>
        \A i \in 1..Len(PresentOrder) :
            artifacts["timing_breakdown.png"].totals[i] = StackSum(i)
    /\ Drawn("dashboard.png") =>
        \A i \in 1..Len(PresentOrder) :
            ValidTimes(PresentOrder[i]) =>
                artifacts["dashboard.png"].totals[i] = StackSum(i)

\* C4 (amended): the total on the timing-breakdown chart equals the sum of
\* the components that chart displays, each component being the raw field
\* (the clamped overhead for processing); the dashboard's average-response-
\* time panel displays the record's avg_total_time_ms, zero when missing.
C4_BreakdownTotalIsComponentSum ==
    /\ Drawn("timing_breakdown.png") =>
        LET c == artifacts["timing_breakdown.png"]
        IN  /\ Len(c.totals) = Len(PresentOrder)
            /\ \A i \in 1..Len(PresentOrder) :
                /\ c.totals[i] = StackSum(i)
                /\ c.dns[i] = Raw(PresentOrder[i], "avg_dns_lookup_ms")
                /\ c.tcp[i] = Raw(PresentOrder[i], "avg_tcp_connect_ms")
                /\ c.tls[i] = Raw(PresentOrder[i], "avg_tls_handshake_ms")
                /\ c.transfer[i] = Raw(PresentOrder[i], "avg_content_transfer_ms")
    /\ Drawn("dashboard.png") =>
        \A i \in 1..Len(PresentOrder) :
            artifacts["dashboard.png"].totals[i]
                = Raw(PresentOrder[i], "avg_total_time_ms")

\* C4 witness: both charts were drawn for a record in which a protocol's
\* average total time differs from the sum of its stacked components.
C4_Witness ==
    /\ Drawn("timing_breakdown.png") /\ Drawn("dashboard.png")
    /\ \E i \in 1..Len(PresentOrder) :
        /\ ValidTimes(PresentOrder[i])
        /\ artifacts["timing_breakdown.png"].totals[i] = StackSum(i)
        /\ StackSum(i) > 0
        /\ artifacts["dashboard.png"].totals[i] # StackSum(i)

\* the dashboard was reached and raised
DashboardRaised ==
    /\ pc = "crashed"
    /\ Drawn("response_time_range.png") /\ ~Drawn("dashboard.png")

\* the total the claim divides by: 1 when total_requests is missing or 0
ClaimedTotal(p) ==
    IF "total_requests" \in DOMAIN TheResults[p] /\ TheResults[p]["total_requests"] # 0
    THEN TheResults[p]["total_requests"] ELSE 1

\* C5 (as stated): for every record and protocol present the dashboard's
\* success-rate computation does not fail; the total counts as 1 when
\* total_requests is missing or 0, the value shown is successful/total x 100,
\* and it lies in [0, 100] when the successes do not exceed that total.
C5_SuccessRateNeverFails ==
    /\ ~DashboardRaised
    /\ Drawn("dashboard.png") =>
        \A i \in 1..Len(PresentOrder) :
            LET p    == PresentOrder[i]
                cell == artifacts["dashboard.png"].success[
                            CHOOSE k \in 1..3 : <<"h1", "h2", "h3">>[k] = p]
                pct  == RoundHalfEven(Raw(p, "successful_requests") * 100,
                                      ClaimedTotal(p))
            IN  /\ ~cell.na
                /\ cell.pct.digits = pct
                /\ Raw(p, "successful_requests") <= ClaimedTotal(p)
                       => (0 <= pct /\ pct <= 100)

\* C6 (as stated): for a record from which a protocol is absent, each of the
\* five chart functions completes without raising and plots exactly the
\* protocols present, in the order h1, h2, h3.
C6_AbsentProtocolsSkipped ==
    (RecordLoaded /\ DOMAIN TheResults # {"h1", "h2", "h3"}) =>
        /\ pc # "crashed"
        /\ \A f \in DOMAIN artifacts :
            artifacts[f].protocols =
                [i \in 1..Len(PresentOrder) |-> PROTOCOL_NAMES[PresentOrder[i]]]

\* C7 (as stated): the annotation of each non-baseline protocol is
\* (requests_per_second - baseline) / baseline x 100 rounded to a whole
\* percent, displayed as a positive percentage exactly when the throughput
\* improves on the baseline: "+N%" for a gain, never a "+" for a loss.
C7_SignMatchesImprovement ==
    Drawn("throughput_comparison.png") =>
        \A i \in 2..Len(PresentOrder) :
            LET base  == Raw(PresentOrder[1], "requests_per_second")
                tp    == Raw(PresentOrder[i], "requests_per_second")
                label == artifacts["throughput_comparison.png"].improvements[i - 1]
                pct   == RoundHalfEven((tp - base) * 100, base)
            IN  /\ label.pct.digits = (IF pct < 0 THEN -pct ELSE pct)
                /\ tp > base => (label.lead = "+" /\ ~label.pct.neg)
                /\ tp < base => label.lead # "+"

\* C10 (as stated): a numeric field missing from a present protocol counts
\* as zero and the run never raises because of it: a record whose fields
\* are all non-zero where present is charted to the end.
C10_MissingFieldsNeverRaise ==
    (RecordLoaded /\ \A p \in DOMAIN TheResults :
                        \A k \in DOMAIN TheResults[p] : TheResults[p][k] > 0)
        => pc # "crashed"

(***************************************************************************)
(* Properties of the per-scenario script.                                  *)
(***************************************************************************)
\* the concurrent panel has been attempted
ConcurrentAttempted == Drawn("large_file") /\ pc # "concurrent"

\* the protocols of a scenario, in canonical order
ScenarioOrder(s) ==
    SelectSeq(<<"http1_1", "http2", "http3">>,
              LAMBDA p : p \in DOMAIN data["results"][s])

\* C8 (as stated, per-scenario variant): improvements are computed relative
\* to the first protocol of http1_1, http2, http3 that is present; when
\* http1_1 is absent the next present protocol becomes the baseline.
C8_BaselineIsFirstPresent ==
    (/\ ConcurrentAttempted
     /\ "concurrent" \in DOMAIN data["results"]
     /\ "http1_1" \notin DOMAIN data["results"]["concurrent"]
     /\ ScenarioOrder("concurrent") # << >>
     /\ \A p \in DOMAIN data["results"]["concurrent"] :
            /\ "total_time" \in DOMAIN data["results"]["concurrent"][p]
            /\ data["results"]["concurrent"][p]["total_time"] > 0)
        => /\ pc # "crashed"
           /\ Drawn("concurrent")

\* C9: for each scenario the declared winner has the minimum total time among
\* the protocols present, the first in the order http1_1, http2, http3 when
\* several tie (concurrent http1_1 = 2.0, http2 = 1.0: http2, speedup 2.00x).
C9_WinnerIsFirstMinimum ==
    "winners" \in DOMAIN console =>
        /\ \A s \in Scenarios :
            LET w    == console["winners"][s]
                T(p) == data["results"][s][p][TimeField(s)]
                ord  == ScenarioOrder(s)
            IN  /\ w \in DOMAIN data["results"][s]
                /\ \A p \in DOMAIN data["results"][s] : T(w) <= T(p)
                /\ \A j \in 1..Len(ord) :
                    T(ord[j]) = T(w) =>
                        \E k \in 1..j : ord[k] = w
        /\ LET c == data["results"]["concurrent"]
           IN  (c["http1_1"]["total_time"] = 2 /\ c["http2"]["total_time"] = 1)
                   => /\ console["winners"]["concurrent"] = "http2"
                      /\ console["speedup"].concurrent[2] = 200

\* C9 witness: winners were declared for a concurrent scenario with
\* http1_1 = 2 and http2 = http3 = 1; http2 won with speedup 2.00x.
C9_Witness ==
    /\ "winners" \in DOMAIN console
    /\ data["results"]["concurrent"]["http1_1"]["total_time"] = 2
    /\ data["results"]["concurrent"]["http2"]["total_time"] = 1
    /\ data["results"]["concurrent"]["http3"]["total_time"] = 1
    /\ console["winners"]["concurrent"] = "http2"
    /\ console["speedup"].concurrent[2] = 200

(***************************************************************************)
(* Properties of the improvement annotations.                              *)
(***************************************************************************)
\* C11 (as stated, throughput chart): a percentage annotation is written for
\* a non-baseline protocol only when its improvement over the baseline
\* exceeds 5 percent, and never for the baseline protocol itself.
C11_AnnotatedOnlyAboveThreshold ==
    Drawn("throughput_comparison.png") =>
        LET written == artifacts["throughput_comparison.png"].improvements
            base    == Raw(PresentOrder[1], "requests_per_second")
        IN  /\ Len(written) <= Max(0, Len(PresentOrder) - 1)
            /\ \A k \in 1..Len(written) :
                (Raw(PresentOrder[k + 1], "requests_per_second") - base) * 100
                    > 5 * base

(***************************************************************************)
(* The command line of both variants: runs of either script, the aggregate *)
(* one over the loader's file systems.                                     *)
(***************************************************************************)
CliInit ==
    \/ /\ \/ argv = "path" /\ fs \in LoaderFs
          \/ argv = "none" /\ fs = AbsentFs
       /\ pc = "start"
       /\ data = Empty
       /\ err = "none"
       /\ result_file = ""
       /\ latest = Empty
       /\ outdir = FALSE
       /\ artifacts = Empty
       /\ console = Empty
    \/ ScenarioInit

CliNext ==
    \/ Next
    \/ ScenarioNext

CliSpec == CliInit /\ [][CliNext]_vars

\* the run is one of the aggregate variant (its file system is a path kind)
AggregateRun == "kind" \in DOMAIN fs

\* the default path of the per-scenario variant
DefaultFile == IF fs.latest_json.exists THEN "latest_json" ELSE "fallback"

\* the per-scenario run without argument chose the default path and, once
\* past the open, ended or went on as that file decides
ScenarioFallsBack ==
    (~AggregateRun /\ argv = "none" /\ pc # "select") =>
        /\ result_file = DefaultFile
        /\ pc # "open" =>
            IF ~fs[DefaultFile].exists
            THEN pc = "crashed" /\ err = "FileNotFoundError"
            ELSE IF ~fs[DefaultFile].content.wellformed
            THEN pc = "crashed" /\ err = "JSONDecodeError"
            ELSE data = fs[DefaultFile].content.data

\* C12 (as stated): in both variants a run without positional argument falls
\* back to a default input path and proceeds to load it; a missing argument
\* is never by itself a reason to exit without loading.
C12_NoArgumentFallsBack ==
    /\ ScenarioFallsBack
    /\ (AggregateRun /\ argv = "none") => pc # "exit1"

\* C12 (amended): the per-scenario variant falls back to results/latest.json
\* if it exists, else benchmark_results.json, and proceeds to load it; the
\* aggregate variant without argument shows its usage and exits with status
\* 1, having loaded nothing and written nothing.
C12_FallbackOnlyPerScenario ==
    /\ ScenarioFallsBack
    /\ (AggregateRun /\ argv = "none") =>
        /\ pc \in {"start", "exit1"}
        /\ data = Empty /\ err = "none"
        /\ ~outdir /\ artifacts = Empty

\* C12 witness: without argument and without results/latest.json the
\* per-scenario script read benchmark_results.json and holds its record.
C12_Witness ==
    /\ ~AggregateRun /\ argv = "none"
    /\ ~fs.latest_json.exists /\ fs.fallback.exists
    /\ result_file = "fallback"
    /\ pc = "single"
    /\ data = fs.fallback.content.data

(***************************************************************************)
(* Order of the steps of the aggregate run.                                *)
(***************************************************************************)
LoadFailed == pc = "crashed" /\ err \in {"FileNotFoundError", "JSONDecodeError"}

\* what holds in every state of a run: nothing is created after a failed
\* load, the directory is made only after a load, artifacts only inside it
StepOrderInvariant ==
    /\ LoadFailed => (~outdir /\ artifacts = Empty)
    /\ outdir => (RecordLoaded /\ fs.charts /\ pc \notin {"start", "loaded"})
    /\ artifacts # Empty => outdir

\* what holds of every step: a load touches no file, only mkdir changes the
\* file system, mkdir never raises, and an artifact is written into a
\* directory made before
StepOrderAction ==
    /\ pc = "start" => (fs' = fs /\ outdir' = FALSE /\ artifacts' = Empty)
    /\ fs' # fs => (pc = "loaded" /\ ~fs.charts)
    /\ pc = "loaded" =>
        (pc' = "timing" /\ err' = "none" /\ outdir' /\ fs'.charts
            /\ artifacts' = Empty)
    /\ artifacts' # artifacts => (outdir /\ fs.charts /\ fs' = fs)

\* C13: every aggregate run goes load record -> create output directory ->
\* write chart artifacts: a failed load (not found, parse error) ends the run
\* with no directory created and no artifact written, and the charts
\* directory is created, without error when it already exists, before the
\* first artifact is written.
C13_LoadThenDirThenCharts ==
    /\ []StepOrderInvariant
    /\ [][StepOrderAction]_vars

\* C13 witness: a run over a results directory loaded the latest file, made
\* the charts directory and then wrote all five artifacts.
C13_Witness ==
    /\ pc = "done" /\ fs.kind = "dir" /\ latest # Empty
    /\ outdir /\ fs.charts
    /\ Cardinality(DOMAIN artifacts) = 5

(***************************************************************************)
(* The chart emissions run in an arbitrary order: main() with its five     *)
(* calls permuted.  An exception of a chart function still ends the run.   *)
(***************************************************************************)
\* the five calls, in the order main() makes them
ChartNames == <<"timing", "latency", "throughput", "minmax", "dashboard">>

\* output_path = output_dir / "<name>.png" of each chart function
ChartFile ==
    [timing |-> "timing_breakdown.png", latency |-> "latency_comparison.png",
     throughput |-> "throughput_comparison.png",
     minmax |-> "response_time_range.png", dashboard |-> "dashboard.png"]

\* the call main() makes for chart c on the loaded record d
ChartCall(c, d) ==
    CASE c = "timing"     -> create_timing_breakdown_chart(ResultsOf(d))
      [] c = "latency"    -> create_latency_comparison_chart(ResultsOf(d))
      [] c = "throughput" -> create_throughput_chart(ResultsOf(d))
      [] c = "minmax"     -> create_min_max_chart(ResultsOf(d))
      [] c = "dashboard"  -> create_summary_dashboard(ResultsOf(d), MetadataOf(d))

\* chart c is called next, whatever was called before it
AnyOrderChart(c) ==
    /\ pc = "timing"
    /\ ChartFile[c] \notin DOMAIN artifacts
    /\ LET chart == ChartCall(c, data)
       IN  IF chart.err = "none"
           THEN /\ artifacts' = artifacts @@ (chart.file :> chart.shows)
                /\ pc' = IF Cardinality(DOMAIN artifacts \cup {chart.file})
                                = Len(ChartNames)
                         THEN "done" ELSE pc
                /\ err' = err
           ELSE /\ Crash(chart.err)
                /\ artifacts' = artifacts
    /\ UNCHANGED <<argv, fs, data, result_file, latest, outdir, console>>

AnyTiming     == AnyOrderChart("timing")
AnyLatency    == AnyOrderChart("latency")
AnyThroughput == AnyOrderChart("throughput")
AnyMinMax     == AnyOrderChart("minmax")
AnyDashboard  == AnyOrderChart("dashboard")

\* result files over the throughput and request-count records
AnyOrderFs ==
    {FileFs(Wellformed(NewFormat(r, 0))) :
        r \in ThroughputRecords
                \cup ResultsOne(MetricsOver(RequestFields, MaxReq))}
        \cup {FileFs(Malformed)}

AnyOrderInit ==
    /\ \/ argv = "path" /\ fs \in AnyOrderFs
       \/ argv = "none" /\ fs = AbsentFs
    /\ pc = "start"
    /\ data = Empty
    /\ err = "none"
    /\ result_file = ""
    /\ latest = Empty
    /\ outdir = FALSE
    /\ artifacts = Empty
    /\ console = Empty

AnyOrderNext ==
    \/ MainUsage
    \/ MainLoad
    \/ MainMkdir
    \/ AnyTiming
    \/ AnyLatency
    \/ AnyThroughput
    \/ AnyMinMax
    \/ AnyDashboard

AnyOrderSpec == AnyOrderInit /\ [][AnyOrderNext]_vars

\* the artifacts main() leaves when it makes the calls k.. in its own order
RECURSIVE MainOrderArtifacts(_, _)
MainOrderArtifacts(d, k) ==
    IF k > Len(ChartNames) THEN Empty
    ELSE LET chart == ChartCall(ChartNames[k], d)
         IN  IF chart.err # "none" THEN Empty
             ELSE (chart.file :> chart.shows) @@ MainOrderArtifacts(d, k + 1)

\* the chart calls have ended, by the last chart or by an exception
ChartsEnded == pc = "done" \/ (pc = "crashed" /\ outdir)

\* C14 (as stated): the five chart emissions write five pairwise distinct
\* files and none changes the loaded record, so for every order in which the
\* five chart functions are run on the same record the resulting set of
\* artifacts and their contents are the same (those of main's own order).
C14_OrderIrrelevant ==
    /\ pc = "done" => Cardinality(DOMAIN artifacts) = 5
    /\ outdir => data = fs.content.data
    /\ ChartsEnded => artifacts = MainOrderArtifacts(data, 1)

=============================================================================
